---- MODULE Spec2Model ----
(***************************************************************************)
(* qmpy/analysis/vasp/potential.py: the POTCAR parser                      *)
(* (Potential.read_potcar) and the Hubbard parameter registry              *)
(* (Hubbard.get, Hubbard.__nonzero__, Hubbard.__eq__), over tables that    *)
(* follow Django's QuerySet.get_or_create.                                 *)
(*                                                                         *)
(* Text is a sequence of one-character strings, so that strip, split,      *)
(* substring tests and float() are computed as Python computes them.       *)
(* A value that is used more than once is bound as an operator parameter.  *)
(***************************************************************************)
EXTENDS Integers, Sequences, FiniteSets, TLC

(***************************************************************************)
(* Bounds of the model.                                                    *)
(***************************************************************************)
\* the longest POTCAR file, in "End of Dataset"-terminated pieces
MaxPots ==
    2

\* the number of read_potcar calls of one behaviour
MaxCalls ==
    2

\* the number of Hubbard.get calls of one behaviour
MaxGets ==
    2

(***************************************************************************)
(* The state.                                                              *)
(***************************************************************************)
VARIABLES
    potentials,   \* the rows of vasp_potentials
    vfile,        \* the VERSION file above the POTCAR directory
    potfile,      \* the file of the last read_potcar call
    ret,          \* that call's outcome: status, at, objs
    made,         \* the rows that call created: id, segment, raw text
    origin,       \* every row created so far with the raw text of its block
    again,        \* that call read the file of the call before it, which returned
    prevIds,      \* the ids the call before it returned, when again
    calls,        \* the read_potcar calls so far
    hubbards,     \* the rows of hubbards
    fk,           \* the storage engine enforces foreign keys
    hbefore,      \* the rows of hubbards before the last Hubbard.get call
    hargs,        \* that call's arguments
    hret,         \* that call's outcome: status, obj
    hagain,       \* that call had the arguments of the call before it
    hprev,        \* the outcome of the call before it
    hgot,         \* the arguments and the record of every call that returned
    hcalls,       \* the Hubbard.get calls so far
    pc,           \* concurrent callers: where each is in its get_or_create
    job,          \* what each is resolving
    saw,          \* what each one's get found
    out           \* each one's outcome: status, obj, created

potcarVars ==
    <<potentials, potfile, ret, made, origin, again, prevIds, calls>>

hubbardVars ==
    <<hubbards, hbefore, hargs, hret, hagain, hprev, hgot, hcalls>>

raceVars ==
    <<pc, job, saw, out>>

\* what the concurrent clients leave alone
raceFrame ==
    <<vfile, fk, potfile, ret, made, origin, again, prevIds, calls,
      hbefore, hargs, hret, hagain, hprev, hgot, hcalls>>

vars ==
    <<potcarVars, vfile, fk, hubbardVars, raceVars>>

(***************************************************************************)
(* Python's str operations.                                                *)
(***************************************************************************)
IsSpace(c) ==
    c \in {" ", "\n", "\t"}

IsDigit(c) ==
    c \in {"0", "1", "2", "3", "4", "5", "6", "7", "8", "9"}

DigitVal(c) ==
    CASE c = "0" -> 0 [] c = "1" -> 1 [] c = "2" -> 2 [] c = "3" -> 3
      [] c = "4" -> 4 [] c = "5" -> 5 [] c = "6" -> 6 [] c = "7" -> 7
      [] c = "8" -> 8 [] c = "9" -> 9

\* the least member of a set of positions, 0 when it is empty
First(S) ==
    IF S = {} THEN 0 ELSE CHOOSE i \in S : \A j \in S : i <= j

\* s[i:] (1-based i)
Drop(s, i) ==
    SubSeq(s, i, Len(s))

\* s[-1]
Last(s) ==
    s[Len(s)]

\* s.startswith(sub, i - 1)
StartsAt(s, sub, i) ==
    /\ i + Len(sub) - 1 <= Len(s)
    /\ SubSeq(s, i, i + Len(sub) - 1) = sub

\* s.find(sub): the first place sub starts at, 0 when there is none
Find(s, sub) ==
    First({i \in 1..Len(s) : StartsAt(s, sub, i)})

\* sub in s
Contains(s, sub) ==
    \E i \in 1..Len(s) : StartsAt(s, sub, i)

\* s.lstrip()
RECURSIVE LStrip(_)
LStrip(s) ==
    IF s # <<>> /\ IsSpace(Head(s)) THEN LStrip(Tail(s)) ELSE s

\* s.rstrip()
RECURSIVE RStrip(_)
RStrip(s) ==
    IF s # <<>> /\ IsSpace(Last(s)) THEN RStrip(SubSeq(s, 1, Len(s) - 1)) ELSE s

\* s.strip()
Strip(s) ==
    RStrip(LStrip(s))

\* s.rstrip(c) for a one-character c
RECURSIVE RStripChar(_, _)
RStripChar(s, c) ==
    IF s # <<>> /\ Last(s) = c THEN RStripChar(SubSeq(s, 1, Len(s) - 1), c) ELSE s

\* s.split(sep): the pieces between the occurrences of sep, empty ones kept
RECURSIVE SplitOn(_, _)
SplitFrom(s, sep, i) ==
    IF i = 0 THEN <<s>>
    ELSE <<SubSeq(s, 1, i - 1)>> \o SplitOn(Drop(s, i + Len(sep)), sep)

SplitOn(s, sep) ==
    SplitFrom(s, sep, Find(s, sep))

\* s.split(): the runs of non-whitespace characters
RECURSIVE Tokens(_)
CutToken(t, e) ==
    IF e = 0 THEN <<t>> ELSE <<SubSeq(t, 1, e - 1)>> \o Tokens(LStrip(Drop(t, e)))

\* of a text without leading whitespace
Tokens(t) ==
    IF t = <<>> THEN <<>> ELSE CutToken(t, First({i \in 1..Len(t) : IsSpace(t[i])}))

SplitWS(s) ==
    Tokens(LStrip(s))

\* ''.join(e for e in s if not e.isdigit())
RECURSIVE DropDigits(_)
DropDigits(s) ==
    IF s = <<>> THEN <<>>
    ELSE IF IsDigit(Head(s)) THEN DropDigits(Tail(s))
    ELSE <<Head(s)>> \o DropDigits(Tail(s))

RECURSIVE DigitsToNat(_)
DigitsToNat(s) ==
    IF s = <<>> THEN 0 ELSE 10 * DigitsToNat(SubSeq(s, 1, Len(s) - 1)) + DigitVal(Last(s))

AllDigits(s) ==
    \A i \in 1..Len(s) : IsDigit(s[i])

\* float() of an integer part and a fraction part: the value as <<integer
\* part, fraction digits without trailing zeros>>, so that "5.50" and "5.5"
\* are one float
FloatOf(ip, fp) ==
    IF AllDigits(ip) /\ AllDigits(fp) /\ Len(ip) + Len(fp) > 0
    THEN [ok |-> TRUE, val |-> <<DigitsToNat(ip), RStripChar(fp, "0")>>]
    ELSE [ok |-> FALSE, val |-> <<0, <<>>>>]

FloatAt(tok, dot) ==
    IF dot = 0 THEN FloatOf(tok, <<>>)
    ELSE FloatOf(SubSeq(tok, 1, dot - 1), Drop(tok, dot + 1))

\* float(tok) for the decimal literals a POTCAR holds (digits with at most one
\* point); ok is FALSE where float() raises ValueError
ParseFloat(tok) ==
    FloatAt(tok, Find(tok, <<".">>))

(***************************************************************************)
(* The literals of potential.py.                                           *)
(***************************************************************************)
EndOfDataset ==
    <<"E","n","d"," ","o","f"," ","D","a","t","a","s","e","t">>

sTITEL ==
    <<"T","I","T","E","L">>

sENMAX ==
    <<"E","N","M","A","X">>

sVRHFIN ==
    <<"V","R","H","F","I","N">>

sLEXCH ==
    <<"L","E","X","C","H">>

sGW ==
    <<"G","W">>

sPAW ==
    <<"P","A","W">>

sUS ==
    <<"U","S">>

sH_AE ==
    <<"H","_","A","E">>

sNone ==
    <<"N","o","n","e">>

sUnknown ==
    <<"u","n","k","n","o","w","n">>

s91 ==
    <<"9","1">>

sCA ==
    <<"C","A">>

sPE ==
    <<"P","E">>

sGGA ==
    <<"G","G","A">>

sLDA ==
    <<"L","D","A">>

sPBE ==
    <<"P","B","E">>

(***************************************************************************)
(* The reference element table (qmpy.materials.element), keyed by symbol.  *)
(* Neither operation writes to it.                                         *)
(***************************************************************************)
symLi ==
    <<"L","i">>

symH ==
    <<"H">>

symFe ==
    <<"F","e">>

symO ==
    <<"O">>

\* a symbol the table does not hold
symXx ==
    <<"X","x">>

Elements ==
    {symLi, symH, symFe, symO}

(***************************************************************************)
(* read_potcar, one block: the potcar dict built from the block's lines.   *)
(* A dict is a function from field names to values. A scan state is the    *)
(* dict so far and the exception that ended the scan ("" when none did).   *)
(***************************************************************************)
Put(d, k, v) ==
    [x \in (DOMAIN d) \cup {k} |-> IF x = k THEN v ELSE d[x]]

Go(d) ==
    [d |-> d, err |-> ""]

Stop(d, e) ==
    [d |-> d, err |-> e]

\* potcar = {}; potcar['release'] = version
NewDict(version) ==
    [x \in {"release"} |-> version]

\* the element symbol of a potential's name
ElementOfName(name) ==
    IF Contains(name, <<"_">>) THEN SplitOn(name, <<"_">>)[1]
    ELSE IF Contains(name, <<".">>) THEN DropDigits(SplitOn(name, <<".">>)[1])
    ELSE name

\* line.split()[3], and "H_AE" on IndexError
NameOf(toks) ==
    IF Len(toks) >= 4 THEN toks[4] ELSE sH_AE

\* line.split()[-1], and "None" for H_AE
DateOf(toks, name) ==
    IF name = sH_AE THEN sNone ELSE Last(toks)

\* the TITEL handler without its look-up in the element table
ResolveUnchecked(d, line, telt) ==
    Go(Put(Put(Put(Put(d, "element", telt),
                   "gw", Contains(line, sGW)),
               "paw", Contains(line, sPAW)),
           "us", Contains(line, sUS)))

\* the unknown element is raised before element, gw, paw and us are set
Resolve(d, line, telt) ==
    IF telt \notin Elements
    THEN Stop(d, "PotentialError")
    ELSE Go(Put(Put(Put(Put(d, "element", telt),
                        "gw", Contains(line, sGW)),
                    "paw", Contains(line, sPAW)),
                "us", Contains(line, sUS)))

Titel(d, line, toks, name) ==
    Resolve(Put(Put(d, "name", name), "date", DateOf(toks, name)),
            line, ElementOfName(name))

TitelToks(d, line, toks) ==
    Titel(d, line, toks, NameOf(toks))

\* if 'TITEL' in line: ...
OnTitel(d, line) ==
    TitelToks(d, line, SplitWS(line))

\* potcar['enmin'] = float(data[5])
Enmin(d, data) ==
    IF Len(data) < 6 THEN Stop(d, "IndexError")
    ELSE LET F(emin) == IF emin.ok THEN Go(Put(d, "enmin", emin.val))
                        ELSE Stop(d, "ValueError")
         IN  F(ParseFloat(data[6]))

\* potcar['enmax'] = float(data[2].rstrip(';')), then enmin
Enmax(d, data) ==
    IF Len(data) < 3 THEN Stop(d, "IndexError")
    ELSE LET F(emax) == IF emax.ok THEN Enmin(Put(d, "enmax", emax.val), data)
                        ELSE Stop(d, "ValueError")
         IN  F(ParseFloat(RStripChar(data[3], ";")))

\* if 'ENMAX' in line: ...
OnEnmax(d, line) ==
    Enmax(d, SplitWS(line))

\* if 'VRHFIN' in line: potcar['elec_config'] = line.split(':')[-1].strip()
OnVrhfin(d, line) ==
    Go(Put(d, "elec_config", Strip(Last(SplitOn(line, <<":">>)))))

Lexch(d, key) ==
    IF key = s91 THEN Go(Put(d, "xc", sGGA))
    ELSE IF key = sCA THEN Go(Put(d, "xc", sLDA))
    ELSE IF key = sPE THEN Go(Put(d, "xc", sPBE))
    ELSE Go(d)

\* if 'LEXCH' in line: key = line.split()[-1] ...
OnLexch(d, line) ==
    Lexch(d, Last(SplitWS(line)))

\* the four ifs of the loop body, in order; an exception ends the scan
OnLine(s, line) ==
    LET T(s0) == IF s0.err = "" /\ Contains(line, sTITEL) THEN OnTitel(s0.d, line) ELSE s0
        E(s1) == IF s1.err = "" /\ Contains(line, sENMAX) THEN OnEnmax(s1.d, line) ELSE s1
        V(s2) == IF s2.err = "" /\ Contains(line, sVRHFIN) THEN OnVrhfin(s2.d, line) ELSE s2
        X(s3) == IF s3.err = "" /\ Contains(line, sLEXCH) THEN OnLexch(s3.d, line) ELSE s3
    IN  X(V(E(T(s))))

RECURSIVE ScanLines(_, _)
ScanLines(s, lines) ==
    IF lines = <<>> \/ s.err # "" THEN s
    ELSE ScanLines(OnLine(s, Head(lines)), Tail(lines))

\* for line in pot.split('\n'): ...
ParsePot(pot, version) ==
    ScanLines(Go(NewDict(version)), SplitOn(pot, <<"\n">>))

\* pots.strip().split('End of Dataset')
SplitPots(text) ==
    SplitOn(Strip(text), EndOfDataset)

\* fr.readline()
ReadLine(text) ==
    LET F(nl) == IF nl = 0 THEN text ELSE SubSeq(text, 1, nl)
    IN  F(Find(text, <<"\n">>))

\* version = 'unknown', or the first line of the VERSION file, stripped
VersionOf(vf) ==
    IF vf.exists THEN Strip(ReadLine(vf.text)) ELSE sUnknown

(***************************************************************************)
(* The vasp_potentials table and QuerySet.get_or_create over it.           *)
(* A row is a record of the model's columns; id is the auto-increment key. *)
(* get_or_create(potcar) looks rows up on the keys the dict holds, and     *)
(* creates a row from the dict and the columns' defaults when none         *)
(* matches. Rows are never deleted.                                        *)
(***************************************************************************)
\* NULL in a text column
Null ==
    <<"NULL">>

\* the columns get_or_create may be keyed on (all but id and potcar)
PotentialFields ==
    {"element", "name", "date", "gw", "paw", "us", "enmax", "enmin",
     "elec_config", "xc", "release"}

\* columns declared without null=True whose field type has no default:
\* an INSERT without them is an IntegrityError
PotentialRequired ==
    {"element", "enmax", "enmin"}

\* the defaults of the other columns
PotentialDefault(k) ==
    CASE k \in {"name", "date", "xc", "release"} -> <<>>
      [] k \in {"gw", "paw", "us"} -> FALSE
      [] k = "elec_config" -> Null

\* the row Potential(d).save() inserts: potcar is not among the keys of d
NewPotential(d, id) ==
    [k \in PotentialFields \cup {"id", "potcar"} |->
        IF k = "id" THEN id
        ELSE IF k = "potcar" THEN <<>>
        ELSE IF k \in DOMAIN d THEN d[k]
        ELSE PotentialDefault(k)]

\* objects.filter(d)
Matching(st, d) ==
    {r \in st : \A k \in DOMAIN d : r[k] = d[k]}

NextId(st) ==
    Cardinality(st) + 1

Got(st, obj) ==
    [store |-> st, obj |-> obj, created |-> FALSE, err |-> ""]

Created(st, row) ==
    [store |-> st \cup {row}, obj |-> row, created |-> TRUE, err |-> ""]

Failed(st, e) ==
    [store |-> st, obj |-> <<>>, created |-> FALSE, err |-> e]

\* objects.create(d): the INSERT
Create(st, d, required) ==
    IF required \subseteq DOMAIN d
    THEN Created(st, NewPotential(d, NextId(st)))
    ELSE Failed(st, "IntegrityError")

\* get_or_create without its get: inserts whatever the table holds
CreateRegardless(st, d, required, found) ==
    Create(st, d, required)

\* get(d), and create(d) on DoesNotExist
GetElseCreate(st, d, required, found) ==
    IF Cardinality(found) = 1 THEN Got(st, CHOOSE r \in found : TRUE)
    ELSE IF Cardinality(found) > 1 THEN Failed(st, "MultipleObjectsReturned")
    ELSE Create(st, d, required)

\* cls.objects.get_or_create(d): the store after it, the object it returns
\* and whether it was created, or the exception it raises
GetOrCreate(st, d, required) ==
    GetElseCreate(st, d, required, Matching(st, d))

(***************************************************************************)
(* read_potcar, the whole call.                                            *)
(***************************************************************************)
Scanned(pot, s) ==
    [pot |-> pot, skip |-> FALSE, d |-> s.d, err |-> s.err]

\* what the loop does with one segment before it touches the store: skip an
\* empty one, scan the lines of any other
Block(pot, version) ==
    IF pot = <<>>
    THEN [pot |-> pot, skip |-> TRUE, d |-> NewDict(version), err |-> ""]
    ELSE Scanned(pot, ParsePot(pot, version))

RECURSIVE BlocksOf(_, _)
BlocksOf(segs, version) ==
    IF segs = <<>> THEN <<>>
    ELSE <<Block(Head(segs), version)>> \o BlocksOf(Tail(segs), version)

\* the segments of a POTCAR text with their dicts
Blocks(text, vf) ==
    BlocksOf(SplitPots(text), VersionOf(vf))

\* potobj.potcar = pot: set on the object in memory; no save() follows
Attach(obj, pot) ==
    [obj EXCEPT !.potcar = pot]

\* a call that hands back, on an exception, the list built so far
RaiseWithList(st, err, i, objs, mk) ==
    [store |-> st, status |-> err, at |-> i, objs |-> objs, created |-> mk]

\* the result of a call that raises at segment i: the caller gets the
\* exception and no list
Raise(st, err, i, objs, mk) ==
    [store |-> st, status |-> err, at |-> i, objs |-> <<>>, created |-> mk]

Return(st, objs, mk) ==
    [store |-> st, status |-> "ok", at |-> 0, objs |-> objs, created |-> mk]

\* an append that lists a record once, when it is created
AppendedIfCreated(objs, g, b) ==
    IF g.created THEN Append(objs, Attach(g.obj, b.pot)) ELSE objs

\* potobjs.append(potobj), with the payload attached if created
Appended(objs, g, b) ==
    Append(objs, IF g.created THEN Attach(g.obj, b.pot) ELSE g.obj)

Noted(mk, g, b, i) ==
    IF g.created THEN mk \cup {[id |-> g.obj.id, at |-> i, pot |-> b.pot]} ELSE mk

\* "for pot in pots" from segment i on
RECURSIVE ReadBlocks(_, _, _, _, _)
AfterGet(g, blocks, i, objs, mk) ==
    IF g.err # "" THEN Raise(g.store, g.err, i, objs, mk)
    ELSE ReadBlocks(g.store, blocks, i + 1,
                    Appended(objs, g, blocks[i]), Noted(mk, g, blocks[i], i))

ReadBlock(st, b, blocks, i, objs, mk) ==
    IF b.skip THEN ReadBlocks(st, blocks, i + 1, objs, mk)
    ELSE IF b.err # "" THEN Raise(st, b.err, i, objs, mk)
    ELSE AfterGet(GetOrCreate(st, b.d, PotentialRequired), blocks, i, objs, mk)

ReadBlocks(st, blocks, i, objs, mk) ==
    IF i > Len(blocks) THEN Return(st, objs, mk)
    ELSE ReadBlock(st, blocks[i], blocks, i, objs, mk)

\* a call inside one transaction: an exception takes its rows back
RolledBack(st, r) ==
    IF r.status = "ok" THEN r ELSE [r EXCEPT !.store = st]

ReadPotcarAtomic(st, blocks) ==
    RolledBack(st, ReadBlocks(st, blocks, 1, <<>>, {}))

\* Potential.read_potcar on a store, given the file's blocks: the store after
\* the call, "ok" and the list returned or the exception raised and the
\* segment it was raised at, and the rows the call created
ReadPotcar(st, blocks) ==
    ReadBlocks(st, blocks, 1, <<>>, {})

(***************************************************************************)
(* The inputs: POTCAR files made of up to MaxPots pieces, each followed by *)
(* "End of Dataset", and the VERSION file one directory up.                *)
(***************************************************************************)
\* a complete block
PotLi ==
    <<"T","I","T","E","L"," ","="," ","P","A","W","_","P","B","E"," ","L","i","_","s","v"," ","2","3","J","a","n","2","0","0","1","\n","E","N","M","A","X"," ","="," ","5",".","5","0",";"," ","E","N","M","I","N"," ","="," ","3"," ","e","V","\n","V","R","H","F","I","N"," ","=","L","i",":"," ","s","1","\n","L","E","X","C","H"," ","="," ","P","E","\n">>

\* the same block without its LEXCH line
PotLiNoXc ==
    <<"T","I","T","E","L"," ","="," ","P","A","W","_","P","B","E"," ","L","i","_","s","v"," ","2","3","J","a","n","2","0","0","1","\n","E","N","M","A","X"," ","="," ","5",".","5","0",";"," ","E","N","M","I","N"," ","="," ","3"," ","e","V","\n","V","R","H","F","I","N"," ","=","L","i",":"," ","s","1","\n">>

\* a complete block whose TITEL line has no name
PotHAE ==
    <<"T","I","T","E","L"," ","="," ","H","\n","E","N","M","A","X"," ","="," ","9",";"," ","E","N","M","I","N"," ","="," ","7"," ","e","V","\n","V","R","H","F","I","N"," ","=","H",":"," ","s","1","\n","L","E","X","C","H"," ","="," ","9","1","\n">>

\* a block of an element the table does not hold
PotXx ==
    <<"T","I","T","E","L"," ","="," ","P","A","W","_","P","B","E"," ","X","x","_","G","W"," ","0","1","J","a","n","2","0","0","0","\n","E","N","M","A","X"," ","="," ","5",".","5","0",";"," ","E","N","M","I","N"," ","="," ","3"," ","e","V","\n">>

\* a block with a malformed ENMAX value ahead of the TITEL line of an element
\* the table does not hold
PotBadNum ==
    <<"E","N","M","A","X"," ","="," ","2","x","5",";"," ","E","N","M","I","N"," ","="," ","2"," ","e","V","\n","T","I","T","E","L"," ","="," ","U","S"," ","X","x","1",".","2","5"," ","0","7","S","e","p","2","0","0","0","\n">>

\* a block without a TITEL line
PotNoTitel ==
    <<"E","N","M","A","X"," ","="," ","5",".","5","0",";"," ","E","N","M","I","N"," ","="," ","3"," ","e","V","\n","V","R","H","F","I","N"," ","=","L","i",":"," ","s","1","\n","L","E","X","C","H"," ","="," ","P","E","\n">>

\* the VERSION file's text
VersionText ==
    <<"5","4","\n">>

PieceNames ==
    {"Li", "LiNoXc", "HAE", "Xx", "BadNum", "NoTitel", "Empty"}

PieceText(n) ==
    CASE n = "Li" -> PotLi
      [] n = "LiNoXc" -> PotLiNoXc
      [] n = "HAE" -> PotHAE
      [] n = "Xx" -> PotXx
      [] n = "BadNum" -> PotBadNum
      [] n = "NoTitel" -> PotNoTitel
      [] n = "Empty" -> <<>>

\* a POTCAR file is named by the pieces it is made of
PotFiles ==
    UNION {[1..n -> PieceNames] : n \in 0..MaxPots}

\* its text
RECURSIVE FileText(_)
FileText(pf) ==
    IF pf = <<>> THEN <<"\n">>
    ELSE PieceText(Head(pf)) \o EndOfDataset \o FileText(Tail(pf))

VersionFiles ==
    {[exists |-> FALSE, text |-> <<>>], [exists |-> TRUE, text |-> VersionText]}

\* Blocks(FileText(f), v) of every input
BlocksTable ==
    [f \in PotFiles, v \in VersionFiles |-> Blocks(FileText(f), v)]

(***************************************************************************)
(* The hubbards table and Hubbard.get.                                     *)
(* A float is held as the parser holds one: <<integer part, fraction       *)
(* digits>>, so 2.5 is <<2, <<"5">>>> and 0 is <<0, <<>>>>. None is Null.   *)
(***************************************************************************)
sWang ==
    <<"w","a","n","g">>

Zero ==
    <<0, <<>>>>

TwoAndHalf ==
    <<2, <<"5">>>>

Two ==
    <<2, <<>>>>

\* v > 0 for a float held this way (none is negative)
Positive(v) ==
    v[1] > 0 \/ v[2] # <<>>

HubbardFields ==
    {"element_id", "ligand_id", "convention", "oxidation_state",
     "hubbard_l", "hubbard_u"}

\* columns declared without null=True that hold text or a float: NULL in one
\* is an IntegrityError (hubbard_l, the fourth such column, is an integer in
\* every call modelled)
HubbardNotNull ==
    {"element_id", "convention", "hubbard_u"}

\* the foreign keys into the element table
HubbardForeign ==
    {"element_id", "ligand_id"}

\* the keyword arguments Hubbard.get hands to get_or_create
HubbardArgs ==
    [element_id : {symFe, symXx},
     ligand_id : {Null, symO, symXx},
     convention : {Null, sWang},
     oxidation_state : {Null, Two},
     hubbard_l : {-1, 2},
     hubbard_u : {Zero, TwoAndHalf}]

NewHubbard(a, id) ==
    [k \in HubbardFields \cup {"id"} |-> IF k = "id" THEN id ELSE a[k]]

\* objects.filter(a): None looks up IS NULL
HubbardMatching(st, a) ==
    {r \in st : \A k \in HubbardFields : r[k] = a[k]}

\* the INSERT is refused: NULL in a NOT NULL column, or, where the storage
\* engine enforces foreign keys (enforce), a symbol the element table lacks
Refused(a, enforce) ==
    \/ \E k \in HubbardNotNull : a[k] = Null
    \/ enforce /\ \E k \in HubbardForeign : a[k] # Null /\ a[k] \notin Elements

\* objects.create(a)
HubbardCreate(st, a, enforce) ==
    IF Refused(a, enforce) THEN Failed(st, "IntegrityError")
    ELSE Created(st, NewHubbard(a, NextId(st)))

\* get_or_create without its get: inserts whatever the table holds
HubbardGetElseInsert(st, a, enforce, found) ==
    HubbardCreate(st, a, enforce)

HubbardGetElseCreate(st, a, enforce, found) ==
    IF Cardinality(found) = 1 THEN Got(st, CHOOSE r \in found : TRUE)
    ELSE IF Cardinality(found) > 1 THEN Failed(st, "MultipleObjectsReturned")
    ELSE HubbardCreate(st, a, enforce)

\* cls.objects.get_or_create of the six arguments
HubbardGetOrCreate(st, a, enforce) ==
    HubbardGetElseCreate(st, a, enforce, HubbardMatching(st, a))

\* Hubbard.get: get_or_create on the arguments as given, nothing before it;
\* "if new: hub.save()" writes the row it has just inserted once more
HubbardGet(st, a, enforce) ==
    HubbardGetOrCreate(st, a, enforce)

\* Hubbard.__nonzero__
Nonzero(h) ==
    Positive(h.hubbard_u) /\ h.hubbard_l # -1

\* Hubbard.__eq__
HubbardEq(h, o) ==
    /\ h.element_id = o.element_id
    /\ h.ligand_id = o.ligand_id
    /\ h.hubbard_l = o.hubbard_l
    /\ h.hubbard_u = o.hubbard_u

\* the special methods class Hubbard defines; models.Model adds neither
\* __bool__ nor __len__
HubbardMethods ==
    {"__nonzero__", "__eq__", "__str__"}

\* bool(h) under Python 3: __bool__ if the class has one, else (there being
\* no __len__ either) True. __nonzero__ is the Python 2 name of the hook and
\* Python 3 does not consult it.
Truth(h) ==
    IF "__bool__" \in HubbardMethods THEN Nonzero(h) ELSE TRUE

(***************************************************************************)
(* The read_potcar calls of one client after another.                      *)
(***************************************************************************)
Ids(objs) ==
    [i \in DOMAIN objs |-> objs[i].id]

NoVersionFile ==
    [exists |-> FALSE, text |-> <<>>]

NoCall ==
    [status |-> "ok", obj |-> <<>>]

Callers ==
    {1, 2}

PotcarIdle ==
    /\ potentials = {}
    /\ potfile = <<>>
    /\ ret = [status |-> "ok", at |-> 0, objs |-> <<>>]
    /\ made = {}
    /\ origin = {}
    /\ again = FALSE
    /\ prevIds = <<>>
    /\ calls = 0

HubbardIdle ==
    /\ hubbards = {}
    /\ hbefore = {}
    /\ hargs = <<>>
    /\ hret = NoCall
    /\ hagain = FALSE
    /\ hprev = NoCall
    /\ hgot = {}
    /\ hcalls = 0

RaceIdle ==
    /\ pc = [p \in Callers |-> "idle"]
    /\ job = [p \in Callers |-> <<>>]
    /\ saw = [p \in Callers |-> ""]
    /\ out = [p \in Callers |-> <<>>]

Init ==
    /\ PotcarIdle
    /\ vfile \in VersionFiles
    /\ fk = TRUE
    /\ HubbardIdle
    /\ RaceIdle

\* the state after a call on file f with result r
Outcome(f, r) ==
    /\ potentials' = r.store
    /\ ret' = [status |-> r.status, at |-> r.at, objs |-> r.objs]
    /\ made' = r.created
    /\ origin' = origin \cup r.created
    /\ potfile' = f
    /\ again' = (calls > 0 /\ f = potfile /\ ret.status = "ok")
    /\ prevIds' = IF calls > 0 /\ f = potfile /\ ret.status = "ok"
                  THEN Ids(ret.objs) ELSE <<>>
    /\ calls' = calls + 1

\* Potential.read_potcar(f), start to end
ReadPotcarCall(f) ==
    /\ calls < MaxCalls
    /\ Outcome(f, ReadPotcar(potentials, BlocksTable[f, vfile]))
    /\ UNCHANGED <<vfile, fk, hubbardVars, raceVars>>

Next ==
    \E f \in PotFiles : ReadPotcarCall(f)

Spec ==
    Init /\ [][Next]_vars

(***************************************************************************)
(* The Hubbard.get calls of one client after another.                      *)
(***************************************************************************)
InitHubbard ==
    /\ PotcarIdle
    /\ vfile = NoVersionFile
    /\ fk \in BOOLEAN
    /\ HubbardIdle
    /\ RaceIdle

Status(g) ==
    IF g.err = "" THEN "ok" ELSE g.err

\* the state after a call with arguments a and get_or_create result g
HubbardOutcome(a, g) ==
    /\ hubbards' = g.store
    /\ hbefore' = hubbards
    /\ hargs' = a
    /\ hret' = [status |-> Status(g), obj |-> g.obj]
    /\ hagain' = (hcalls > 0 /\ a = hargs)
    /\ hprev' = hret
    /\ hgot' = IF g.err = "" THEN hgot \cup {[args |-> a, obj |-> g.obj]} ELSE hgot
    /\ hcalls' = hcalls + 1

\* Hubbard.get(a), start to end
HubbardGetCall(a) ==
    /\ hcalls < MaxGets
    /\ HubbardOutcome(a, HubbardGet(hubbards, a, fk))
    /\ UNCHANGED <<vfile, fk, potcarVars, raceVars>>

NextHubbard ==
    \E a \in HubbardArgs : HubbardGetCall(a)

SpecHubbard ==
    InitHubbard /\ [][NextHubbard]_vars

(***************************************************************************)
(* Two clients at once. get_or_create is a SELECT and then, when it found  *)
(* nothing, an INSERT; neither read_potcar nor Hubbard.get puts a          *)
(* transaction or a lock around the two, and neither table has a unique    *)
(* index, so the statements of two clients interleave freely. Each client  *)
(* resolves one field tuple: the dict of a one-block POTCAR, or the        *)
(* arguments of a Hubbard.get.                                             *)
(***************************************************************************)
RaceFiles ==
    {<<"Li">>, <<"LiNoXc">>, <<"HAE">>}

RaceArgs ==
    {a \in HubbardArgs : a.oxidation_state = Null /\ a.hubbard_l = 2}

PotcarJob(f) ==
    [kind |-> "read_potcar", of |-> f]

HubbardJob(a) ==
    [kind |-> "Hubbard.get", of |-> a]

SameJob(j, k) ==
    j.kind = k.kind /\ j.of = k.of

\* the keyword arguments of the job's get_or_create
JobDict(j) ==
    IF j.kind = "read_potcar" THEN BlocksTable[j.of, vfile][1].d ELSE j.of

JobTable(j) ==
    IF j.kind = "read_potcar" THEN potentials ELSE hubbards

JobMatching(st, j) ==
    IF j.kind = "read_potcar" THEN Matching(st, JobDict(j))
    ELSE HubbardMatching(st, JobDict(j))

Looked(st, found) ==
    IF Cardinality(found) = 1 THEN Got(st, CHOOSE r \in found : TRUE)
    ELSE IF Cardinality(found) > 1 THEN Failed(st, "MultipleObjectsReturned")
    ELSE Failed(st, "DoesNotExist")

\* self.get of the lookup
JobGet(st, j) ==
    Looked(st, JobMatching(st, j))

\* an INSERT under a unique index on the field tuple: refused when a row
\* with the tuple is there
JobCreateUnique(st, j, enforce) ==
    IF JobMatching(st, j) # {} THEN Failed(st, "IntegrityError")
    ELSE IF j.kind = "read_potcar" THEN Create(st, JobDict(j), PotentialRequired)
    ELSE HubbardCreate(st, JobDict(j), enforce)

\* self.create of the params: the INSERT the tables as declared accept
JobCreate(st, j, enforce) ==
    IF j.kind = "read_potcar" THEN Create(st, JobDict(j), PotentialRequired)
    ELSE HubbardCreate(st, JobDict(j), enforce)

\* on IntegrityError get_or_create looks once more and raises the error
\* again if there is still no row
Retried(g, l) ==
    IF l.err = "DoesNotExist" THEN g ELSE l

Recovered(st, j, g) ==
    IF g.err = "" THEN g ELSE Retried(g, JobGet(st, j))

InitRace ==
    /\ PotcarIdle
    /\ vfile = NoVersionFile
    /\ fk \in BOOLEAN
    /\ HubbardIdle
    /\ RaceIdle

\* client p enters get_or_create for job j
Begin(p, j) ==
    /\ pc[p] = "idle"
    /\ pc' = [pc EXCEPT ![p] = "get"]
    /\ job' = [job EXCEPT ![p] = j]
    /\ UNCHANGED <<potentials, hubbards, saw, out>>
    /\ UNCHANGED raceFrame

\* get_or_create returns g to client p
Settle(p, j, g) ==
    /\ potentials' = IF j.kind = "read_potcar" THEN g.store ELSE potentials
    /\ hubbards' = IF j.kind = "Hubbard.get" THEN g.store ELSE hubbards
    /\ out' = [out EXCEPT ![p] =
                  [status |-> Status(g), obj |-> g.obj, created |-> g.created]]
    /\ pc' = [pc EXCEPT ![p] = "done"]

Selected(p, j, g) ==
    IF g.err = "DoesNotExist"
    THEN /\ pc' = [pc EXCEPT ![p] = "create"]
         /\ saw' = [saw EXCEPT ![p] = "absent"]
         /\ UNCHANGED <<potentials, hubbards, out>>
    ELSE /\ saw' = [saw EXCEPT ![p] = "present"]
         /\ Settle(p, j, g)

\* client p's SELECT
Select(p) ==
    /\ pc[p] = "get"
    /\ Selected(p, job[p], JobGet(JobTable(job[p]), job[p]))
    /\ UNCHANGED job
    /\ UNCHANGED raceFrame

\* client p's INSERT
Insert(p) ==
    /\ pc[p] = "create"
    /\ Settle(p, job[p],
              Recovered(JobTable(job[p]), job[p],
                        JobCreate(JobTable(job[p]), job[p], fk)))
    /\ UNCHANGED <<job, saw>>
    /\ UNCHANGED raceFrame

NextRace ==
    \E p \in Callers :
        \/ \E f \in RaceFiles : Begin(p, PotcarJob(f))
        \/ \E a \in RaceArgs : Begin(p, HubbardJob(a))
        \/ Select(p)
        \/ Insert(p)

SpecRace ==
    InitRace /\ [][NextRace]_vars

(***************************************************************************)
(* The claims about read_potcar, checked under Spec.                       *)
(***************************************************************************)
\* the blocks of the file of the last call
LastBlocks ==
    BlocksTable[potfile, vfile]

\* the positions of its non-empty segments, in order
RECURSIVE NonEmptyFrom(_, _)
NonEmptyFrom(blocks, i) ==
    IF i > Len(blocks) THEN <<>>
    ELSE IF blocks[i].pot = <<>> THEN NonEmptyFrom(blocks, i + 1)
    ELSE <<i>> \o NonEmptyFrom(blocks, i + 1)

NonEmpty(blocks) ==
    NonEmptyFrom(blocks, 1)

\* row r has the values dict d holds
Agrees(r, d) ==
    \A k \in DOMAIN d : r[k] = d[k]

SameTuple(r, s) ==
    \A k \in PotentialFields : r[k] = s[k]

\* some line of the block is a TITEL line whose symbol the table lacks
UnknownTitelLine(line) ==
    Contains(line, sTITEL) /\ ElementOfName(NameOf(SplitWS(line))) \notin Elements

UnknownTitel(pot) ==
    \E i \in DOMAIN SplitOn(pot, <<"\n">>) : UnknownTitelLine(SplitOn(pot, <<"\n">>)[i])

UnknownPieces ==
    {n \in PieceNames : UnknownTitel(PieceText(n))}

\* the first block of file f with such a line, 0 if it has none
FirstUnknown(f) ==
    First({i \in DOMAIN f : f[i] \in UnknownPieces})

\* C1: after any sequence of read_potcar calls no two rows of the store have
\* the same full field tuple, and a second parse of the same content creates
\* no row and returns, block for block, the rows the first parse returned.
C1_NoDuplicateAndSameRows ==
    /\ \A r, s \in potentials : SameTuple(r, s) => r = s
    /\ again => /\ made = {}
                /\ ret.status = "ok"
                /\ Ids(ret.objs) = prevIds

\* C2: when the same content is parsed twice, each record the second parse
\* returns carries as potcar the raw text of the block it was created from.
C2_PayloadPreserved ==
    again /\ ret.status = "ok" =>
        \A i \in DOMAIN ret.objs :
            \E m \in origin : m.id = ret.objs[i].id /\ ret.objs[i].potcar = m.pot

\* C3: a successful read_potcar returns one record per non-empty segment, in
\* the order of the segments: the i-th record is a stored row holding the
\* values of the i-th non-empty segment's dict, empty segments add nothing,
\* and segments with the same dict give the same row.
C3_OneRecordPerBlock ==
    calls > 0 /\ ret.status = "ok" =>
        /\ Len(ret.objs) = Len(NonEmpty(LastBlocks))
        /\ \A i \in DOMAIN ret.objs :
              /\ Agrees(ret.objs[i], LastBlocks[NonEmpty(LastBlocks)[i]].d)
              /\ \E r \in potentials : r.id = ret.objs[i].id /\ SameTuple(r, ret.objs[i])
        /\ \A i, j \in DOMAIN ret.objs :
              LastBlocks[NonEmpty(LastBlocks)[i]].d = LastBlocks[NonEmpty(LastBlocks)[j]].d
                  => ret.objs[i].id = ret.objs[j].id

C3_Witness ==
    /\ ret.status = "ok"
    /\ Len(ret.objs) = 2
    /\ ret.objs[1].id = ret.objs[2].id
    /\ Len(LastBlocks) > 2

\* C4 as stated: if a block's TITEL line derives a symbol the element table
\* lacks, the call fails with PotentialError at that block, returns no
\* records, and creates no row for that block or any block after it.
C4_PotentialErrorAtBlock ==
    calls > 0 /\ FirstUnknown(potfile) > 0 =>
        /\ ret.status = "PotentialError"
        /\ ret.at = FirstUnknown(potfile)
        /\ ret.objs = <<>>
        /\ \A m \in made : m.at < FirstUnknown(potfile)

\* C4 as amended: if a block's TITEL line derives a symbol the element table
\* lacks, the call fails at that block or before it and returns no records,
\* and creates no row for that block or any block after it; the failure is
\* the PotentialError at that block unless an earlier block failed first or
\* an earlier line of that block raised ValueError or IndexError.
C4_FailsAtOrBeforeBlock ==
    calls > 0 /\ FirstUnknown(potfile) > 0 =>
        /\ ret.status # "ok"
        /\ ret.objs = <<>>
        /\ \A m \in made : m.at < FirstUnknown(potfile)
        /\ \/ ret.at < FirstUnknown(potfile) /\ ret.at > 0
           \/ ret.at = FirstUnknown(potfile)
              /\ ret.status \in {"PotentialError", "ValueError", "IndexError"}

C4_Witness ==
    /\ FirstUnknown(potfile) = 2
    /\ ret.status = "PotentialError"
    /\ ret.at = 2
    /\ made # {}

\* C5: in every reachable state each stored Potential row references an
\* element of the element table, whatever was read: blocks of an unknown
\* symbol and blocks without a TITEL line included.
C5_ElementResolved ==
    \A r \in potentials : r.element \in Elements

C5_Witness ==
    /\ potentials # {}
    /\ ret.status \in {"PotentialError", "IntegrityError"}
    /\ calls = MaxCalls

\* a call that failed at block r.at took the store from before to after as
\* a successful call on the blocks ahead of r.at does
LeavesPrefix(before, after, r, blocks) ==
    /\ before \subseteq after
    /\ {x.id : x \in after \ before} = {m.id : m \in r.created}
    /\ \A m \in r.created : m.at < r.at
    /\ ReadPotcar(before, SubSeq(blocks, 1, r.at - 1)).status = "ok"
    /\ ReadPotcar(before, SubSeq(blocks, 1, r.at - 1)).store = after

\* C9: read_potcar commits block by block: a call that fails at block k
\* leaves the store as a successful call on blocks 1..k-1 leaves it; no row
\* it held is lost or changed, the rows created for the earlier blocks are
\* in it, and nothing else is.
C9_CommitPerBlock ==
    [][calls' = calls + 1 /\ ret'.status # "ok" =>
          LeavesPrefix(potentials, potentials', [at |-> ret'.at, created |-> made'],
                   BlocksTable[potfile', vfile'])]_vars

C9_Witness ==
    ret.status # "ok" /\ made # {}

(***************************************************************************)
(* The claims about Hubbard.get, checked under SpecHubbard.                *)
(***************************************************************************)
\* a symbol among the arguments that the element table lacks
UnknownSymbol(a) ==
    \/ a.element_id \notin Elements
    \/ a.ligand_id # Null /\ a.ligand_id \notin Elements

C7_UnknownSymbolFails ==
    hcalls > 0 /\ UnknownSymbol(hargs) =>
        hret.status # "ok" /\ hubbards = hbefore

\* C8: the truth value of a Hubbard record under the Python the package
\* declares is hubbard_u > 0 and hubbard_l # -1.
C8_Truthiness ==
    hcalls > 0 /\ hret.status = "ok" =>
        (Truth(hret.obj) <=> Positive(hret.obj.hubbard_u) /\ hret.obj.hubbard_l # -1)

(***************************************************************************)
(* The claim about concurrent clients, checked under SpecRace.             *)
(***************************************************************************)
\* C10: get_or_create is a read and then a write with nothing around them:
\* two clients resolving the same field tuple can both read "absent" before
\* either writes, and when they have, both create a row, so that the table
\* holds two rows with the tuple.
C10_BothCreate ==
    \A p, q \in Callers :
        (/\ p # q
         /\ pc[p] = "done" /\ pc[q] = "done"
         /\ saw[p] = "absent" /\ saw[q] = "absent"
         /\ SameJob(job[p], job[q]))
        => /\ out[p].status = out[q].status
           /\ out[p].status = "ok" =>
                 /\ out[p].created /\ out[q].created
                 /\ out[p].obj.id # out[q].obj.id
                 /\ Cardinality(JobMatching(JobTable(job[p]), job[p])) = 2

C10_Witness ==
    /\ pc[1] = "done" /\ pc[2] = "done"
    /\ saw[1] = "absent" /\ saw[2] = "absent"
    /\ SameJob(job[1], job[2])
    /\ out[1].created /\ out[2].created
    /\ Cardinality(JobMatching(JobTable(job[1]), job[1])) = 2

====
